---- MODULE Spec2Model ----
(***************************************************************************)
(* ColorFocus puzzle generator: backend/app/services/puzzle_generator.py,  *)
(* backend/app/services/distribution_validator.py and                      *)
(* backend/app/models/puzzle.py as a state machine.                        *)
(*                                                                         *)
(* One PuzzleGenerator instance is modelled with its fields (seed,         *)
(* congruence_percentage, color_count, _colors, _rng, _validator), the     *)
(* locals of generate (current_seed, attempts, cells_flat, cells_2d) and   *)
(* the locals of _optimize_stroop_interference (cells, grid_size,          *)
(* max_swaps and the position of its outer loop).  Python lists are        *)
(* sequences; a Python index i is the sequence index i + 1.                *)
(*                                                                         *)
(* random.Random is the standard library's generator.  It is modelled as   *)
(* a deterministic generator whose whole state is one number: seeding      *)
(* fixes the state, every draw advances it and the value drawn is a        *)
(* function of the state.  congruence_percentage is a rational with the    *)
(* denominator CongruenceDenom.                                            *)
(***************************************************************************)
EXTENDS Integers, Sequences, FiniteSets, TLC

VARIABLES
    pc,                     \* position of the modelled call
    generator,              \* which PuzzleGenerator the caller holds: 1, 2, ...
    init_args,              \* the arguments __init__ was called with, and the clock
    seed,                   \* self.seed
    congruence_percentage,  \* self.congruence_percentage, in 1/CongruenceDenom
    color_count,            \* self.color_count
    colors,                 \* self._colors
    rng,                    \* self._rng (the state of the generator object)
    rng_seed,               \* the seed self._rng was constructed from
    validator,              \* self._validator
    current_seed,           \* generate: current_seed
    attempts,               \* generate: attempts
    cells_flat,             \* generate: cells_flat / the caller's list
    cells_2d,               \* generate: cells_2d
    cells,                  \* _optimize_stroop_interference: cells (the copy)
    grid_size,              \* _optimize_stroop_interference: grid_size
    max_swaps,              \* _optimize_stroop_interference: max_swaps
    swap_step,              \* _optimize_stroop_interference: iterations begun
    caller,                 \* who called the optimizer: "generate" or "direct"
    last_swap,              \* the swap <<i, j>> applied by the last optimizer step
    optimized,              \* the lists direct optimizer calls have returned
    returned,               \* the grids generate has returned, in call order
    log,                    \* logger.warning records, in order
    direct,                 \* a direct call of a helper: its arguments and its result
    other                   \* a second PuzzleGenerator and the call running on it, while
                            \* the thread of the first one has the processor

vars == <<pc, generator, init_args, seed, congruence_percentage, color_count, colors, rng, rng_seed, validator,
          current_seed, attempts, cells_flat, cells_2d, cells, grid_size,
          max_swaps, swap_step, caller, last_swap, optimized, returned, log, direct, other>>

None == "None"
\* active_colors = None, where a list is expected
NoList == <<None>>
\* no helper has been called directly
NoCall == [op |-> "none"]
\* no second generator has been constructed
NoOther == [present |-> FALSE]
\* best_swap = None
NoSwap == <<>>
\* a local that is not bound yet
Unbound == 0 - 1

Min(a, b) == IF a < b THEN a ELSE b
Max(a, b) == IF a > b THEN a ELSE b

(***************************************************************************)
(* Bounds of the model.                                                    *)
(***************************************************************************)
\* how many of the seeds of SeedList a configuration may use
NumSeeds == 2
\* how many times generate is called on one configuration
MaxCalls == 2
\* congruence_percentage is k / CongruenceDenom
CongruenceDenom == 8
\* a direct call of the optimizer passes max_swaps in 0..MaxStepCap
MaxStepCap == 2
\* in an input list of a direct optimizer call the first FullCells cells are any
\* cells over the two-colour subset, the others are incongruent cells
FullCells == 2
\* the counts passed to a direct call of validate are in 0..MaxCount, and so are the
\* validator's limits
MaxCount == 2
\* the cell lists passed to direct calls of _interference_at have at most MaxSide
\* rows and at most MaxSide columns
MaxSide == 3

(***************************************************************************)
(* backend/app/constants/colors.py                                         *)
(***************************************************************************)
\* list(ColorToken): the members in definition order
ColorToken == <<"BLACK", "BROWN", "PURPLE", "BLUE", "GRAY", "PINK", "ORANGE", "YELLOW">>

Range(s) == {s[k] : k \in 1..Len(s)}

(***************************************************************************)
(* random.Random                                                           *)
(***************************************************************************)
RngMod == 65536
RngMul == 25173
RngInc == 13849

\* random.Random(seed)
RngNew(s) == ((s % RngMod) + 31 * (s \div RngMod)) % RngMod

\* the state after one draw
RngNext(r) == (r * RngMul + RngInc) % RngMod

\* Random._randbelow(n) read off the state reached by the draw
Randbelow(r, n) == (r * n) \div RngMod

\* Random.random() < p read off the state reached by the draw, p = cp / CongruenceDenom
RandomLess(r, cp) == r * CongruenceDenom < cp * RngMod

\* x[i], x[j] = x[j], x[i] on 0-based indices
Swap(x, i, j) == [x EXCEPT ![i + 1] = x[j + 1], ![j + 1] = x[i + 1]]

\* for k in range(lo, hi): st = Body(st, k).  The range is split in halves to keep
\* the evaluation shallow; the iterations run in the order lo, lo + 1, ..., hi - 1.
\* The state an iteration starts from is bound as a value (x \in {e}), so that it is
\* computed once however often the body reads it.
RECURSIVE ForRange(_, _, _, _)
ForRange(Body(_, _), st, lo, hi) ==
    IF hi <= lo THEN st
    ELSE IF hi = lo + 1 THEN CHOOSE v \in {Body(s0, lo) : s0 \in {st}} : TRUE
    ELSE CHOOSE v \in {ForRange(Body, first, (lo + hi) \div 2, hi) :
                          first \in {ForRange(Body, st, lo, (lo + hi) \div 2)}} : TRUE

\* one iteration of Random.shuffle at index i: j = randbelow(i + 1); x[i], x[j] = x[j], x[i]
ShuffleAt(st, i) ==
    LET r1 == RngNext(st.rng)
        j == Randbelow(r1, i + 1)
    IN [list |-> Swap(st.list, i, j), rng |-> r1]

\* Random.shuffle(x): for i in reversed(range(1, len(x))); the list and the state after
Shuffle(x, r) ==
    ForRange(LAMBDA st, k : ShuffleAt(st, Len(st.list) - 1 - k), [list |-> x, rng |-> r],
             0, Len(x) - 1)

(***************************************************************************)
(* backend/app/services/distribution_validator.py                          *)
(***************************************************************************)
\* DistributionValidator(min_count, max_count)
DistributionValidator(min_count, max_count) ==
    [kind |-> "DistributionValidator", min_count |-> min_count, max_count |-> max_count]

\* the issues list built by the loop of validate, over colors_to_check[k..]
RECURSIVE ValidateIssues(_, _, _, _)
ValidateIssues(v, color_counts, colors_to_check, k) ==
    IF k > Len(colors_to_check) THEN <<>>
    ELSE LET token == colors_to_check[k]
             count == IF token \in DOMAIN color_counts THEN color_counts[token] ELSE 0
             rest == ValidateIssues(v, color_counts, colors_to_check, k + 1)
         IN IF count < v.min_count
              THEN <<[token |-> token, count |-> count, issue |-> "below minimum"]>> \o rest
            ELSE IF count > v.max_count
              THEN <<[token |-> token, count |-> count, issue |-> "above maximum"]>> \o rest
            ELSE rest

\* a variant that checks every token, whatever active_colors is
ValidateAllTokens(v, color_counts, active_colors) ==
    [is_valid |-> Len(ValidateIssues(v, color_counts, ColorToken, 1)) = 0,
     issues |-> ValidateIssues(v, color_counts, ColorToken, 1)]

\* DistributionValidator.validate(color_counts, active_colors)
Validate(v, color_counts, active_colors) ==
    LET colors_to_check == IF active_colors /= NoList THEN active_colors ELSE ColorToken
        issues == ValidateIssues(v, color_counts, colors_to_check, 1)
    IN [is_valid |-> Len(issues) = 0, issues |-> issues]

(***************************************************************************)
(* backend/app/services/puzzle_generator.py                                *)
(***************************************************************************)
ROWS == 8
COLS == 8
TOTAL_CELLS == ROWS * COLS
MAX_RETRIES == 3
DefaultMaxSwaps == 50
MaxPairsToCheck == 100

\* a variant table: the first k tokens of the enumeration
FirstTokens == [k \in 2..8 |-> [i \in 1..k |-> ColorToken[i]]]

\* PuzzleGenerator.DEFAULT_COLOR_SUBSETS
DEFAULT_COLOR_SUBSETS ==
    [k \in 2..8 |->
        CASE k = 2 -> <<"BLACK", "YELLOW">>
          [] k = 3 -> <<"BLACK", "BLUE", "YELLOW">>
          [] k = 4 -> <<"BLACK", "BLUE", "ORANGE", "YELLOW">>
          [] k = 5 -> <<"BLACK", "PURPLE", "BLUE", "ORANGE", "YELLOW">>
          [] k = 6 -> <<"BLACK", "PURPLE", "BLUE", "PINK", "ORANGE", "YELLOW">>
          [] k = 7 -> <<"BLACK", "BROWN", "PURPLE", "BLUE", "PINK", "ORANGE", "YELLOW">>
          [] k = 8 -> ColorToken]

\* PuzzleCell(word, ink_color)
PuzzleCell(word, ink_color) == [word |-> word, ink_color |-> ink_color]

\* PuzzleMetadata(seed, rows, cols, congruence_percentage, color_count)
PuzzleMetadata(s, rows, cols, cp, cc) ==
    [seed |-> s, rows |-> rows, cols |-> cols,
     congruence_percentage |-> cp, color_count |-> cc]

\* PuzzleGrid(cells, metadata)
PuzzleGrid(c2d, metadata) == [cells |-> c2d, metadata |-> metadata]

\* a variant with a wrong upper limit: max(2, min(7, color_count))
ClampToSeven(cc) == Max(2, Min(7, cc))

\* the clamp of __init__: max(2, min(8, color_count))
ClampColorCount(cc) == Max(2, Min(8, cc))

\* a variant whose tolerance is the smaller of 2 and a quarter: min(2, base // 4)
InitValidatorNarrow(cc) ==
    LET cells_per_color == TOTAL_CELLS \div cc
        tolerance == Min(2, cells_per_color \div 4)
    IN DistributionValidator(cells_per_color - tolerance, cells_per_color + tolerance)

\* the validator __init__ builds for a clamped color count
InitValidator(cc) ==
    LET cells_per_color == TOTAL_CELLS \div cc
        tolerance == Max(2, cells_per_color \div 4)
    IN DistributionValidator(cells_per_color - tolerance, cells_per_color + tolerance)

\* [token] * n
Repeat(token, n) == [k \in 1..n |-> token]

\* a variant with the comparison off by one: extra = 1 if i <= remainder else 0
ExtraInclusive(i, remainder) == IF i <= remainder THEN 1 ELSE 0

\* extra = 1 if i < remainder else 0
Extra(i, remainder) == IF i < remainder THEN 1 ELSE 0

\* the loop of _create_ink_distribution over self._colors[i..], before the shuffle
RECURSIVE InkRuns(_, _, _)
InkRuns(cols_, cc, i) ==
    IF i >= Len(cols_) THEN <<>>
    ELSE LET cells_per_color == TOTAL_CELLS \div cc
             remainder == TOTAL_CELLS % cc
             extra == Extra(i, remainder)
         IN Repeat(cols_[i + 1], cells_per_color + extra) \o InkRuns(cols_, cc, i + 1)

\* _create_ink_distribution: the list and the generator state after the shuffle
CreateInkDistribution(cols_, cc, r) == Shuffle(InkRuns(cols_, cc, 0), r)

\* a variant that draws the other colors from the whole enum
OtherColorsOfEnum(cols_, ink_color) == SelectSeq(ColorToken, LAMBDA c : c /= ink_color)

\* a variant without the filter c != ink_color
OtherColorsUnfiltered(cols_, ink_color) == cols_

\* [c for c in self._colors if c != ink_color]
OtherColors(cols_, ink_color) == SelectSeq(cols_, LAMBDA c : c /= ink_color)

\* the body of the loop of _assign_words for one ink color
AssignWord(st, ink_color, cols_, cp) ==
    LET r1 == RngNext(st.rng)
        is_congruent == RandomLess(r1, cp)
        other_colors == OtherColors(cols_, ink_color)
        r2 == RngNext(r1)
        word == IF is_congruent THEN ink_color
                ELSE other_colors[Randbelow(r2, Len(other_colors)) + 1]
    IN [list |-> Append(st.list, PuzzleCell(word, ink_color)),
        rng |-> IF is_congruent THEN r1 ELSE r2]

\* _assign_words: the cells and the generator state after
AssignWords(ink_colors, cols_, cp, r) ==
    ForRange(LAMBDA st, k : AssignWord(st, ink_colors[k + 1], cols_, cp),
             [list |-> <<>>, rng |-> r], 0, Len(ink_colors))

\* a variant that takes the right neighbour whatever the column is
GetAdjacentWrapping(flat_index, gs) ==
    LET row == flat_index \div gs
        col == flat_index % gs
    IN (IF row > 0 THEN <<flat_index - gs>> ELSE <<>>)
       \o (IF row < gs - 1 THEN <<flat_index + gs>> ELSE <<>>)
       \o (IF col > 0 THEN <<flat_index - 1>> ELSE <<>>)
       \o <<flat_index + 1>>

\* _get_adjacent_indices(flat_index, grid_size), as the list the code builds
GetAdjacentIndices(flat_index, gs) ==
    LET row == flat_index \div gs
        col == flat_index % gs
    IN (IF row > 0 THEN <<flat_index - gs>> ELSE <<>>)
       \o (IF row < gs - 1 THEN <<flat_index + gs>> ELSE <<>>)
       \o (IF col > 0 THEN <<flat_index - 1>> ELSE <<>>)
       \o (IF col < gs - 1 THEN <<flat_index + 1>> ELSE <<>>)

\* the adjacent indices _interference_at reads a cell at: lines 328-329
NeighboursUsed(cs, idx, gs) ==
    {adj_idx \in Range(GetAdjacentIndices(idx, gs)) : adj_idx < Len(cs)}

\* the loop of _interference_at over the adjacent list adj[k..]
RECURSIVE InterferenceOver(_, _, _, _)
InterferenceOver(cs, idx, adj, k) ==
    IF k > Len(adj) THEN 0
    ELSE LET adj_idx == adj[k]
             cell == cs[idx + 1]
         IN (IF adj_idx < Len(cs)
               THEN (IF cell.ink_color = cs[adj_idx + 1].word THEN 1 ELSE 0)
                    + (IF cs[adj_idx + 1].ink_color = cell.word THEN 1 ELSE 0)
               ELSE 0)
            + InterferenceOver(cs, idx, adj, k + 1)

\* a variant that counts a neighbour once when either direction matches
InterferenceEither(cs, idx, gs) ==
    Cardinality({k \in 1..Len(GetAdjacentIndices(idx, gs)) :
                    /\ GetAdjacentIndices(idx, gs)[k] < Len(cs)
                    /\ \/ cs[idx + 1].ink_color = cs[GetAdjacentIndices(idx, gs)[k] + 1].word
                       \/ cs[GetAdjacentIndices(idx, gs)[k] + 1].ink_color = cs[idx + 1].word})

\* a variant that counts one direction only: my ink matches the neighbour's word
InterferenceOneWay(cs, idx, gs) ==
    Cardinality({k \in 1..Len(GetAdjacentIndices(idx, gs)) :
                    /\ GetAdjacentIndices(idx, gs)[k] < Len(cs)
                    /\ cs[idx + 1].ink_color = cs[GetAdjacentIndices(idx, gs)[k] + 1].word})

\* _interference_at(cells, idx, grid_size)
InterferenceAt(cs, idx, gs) ==
    CHOOSE v \in {InterferenceOver(cs, idx, adj, 1) : adj \in {GetAdjacentIndices(idx, gs)}} : TRUE

\* a variant that scores the first cell of the pair only
SwapGainOneSided(cs, i, j, gs) ==
    CHOOSE v \in {InterferenceAt(sw, i, gs) - InterferenceAt(cs, i, gs) :
                  sw \in {Swap(cs, i, j)}} : TRUE

\* a variant with the difference reversed: current - swapped
SwapGainReversed(cs, i, j, gs) ==
    CHOOSE v \in {(InterferenceAt(cs, i, gs) + InterferenceAt(cs, j, gs))
                  - (InterferenceAt(sw, i, gs) + InterferenceAt(sw, j, gs)) :
                  sw \in {Swap(cs, i, j)}} : TRUE

\* gain of swapping i and j: swapped - current, with the trial swap undone after
SwapGain(cs, i, j, gs) ==
    CHOOSE v \in {(InterferenceAt(sw, i, gs) + InterferenceAt(sw, j, gs))
                  - (InterferenceAt(cs, i, gs) + InterferenceAt(cs, j, gs)) :
                  sw \in {Swap(cs, i, j)}} : TRUE

\* a variant that keeps the last pair attaining the best gain: gain >= best_gain
SamplePairLast(st, cs, gs) ==
    LET r1 == RngNext(st.rng)
        i == Randbelow(r1, Len(cs))
        r2 == RngNext(r1)
        j == Randbelow(r2, Len(cs))
    IN IF i = j THEN [st EXCEPT !.rng = r2]
       ELSE CHOOSE v \in {IF gain >= st.best_gain
                            THEN [best_gain |-> gain, best_swap |-> <<i, j>>, rng |-> r2]
                            ELSE [st EXCEPT !.rng = r2] :
                          gain \in {SwapGain(cs, i, j, gs)}} : TRUE

\* the body of the sampling loop: draw i and j, skip i = j, keep the best gain
SamplePair(st, cs, gs) ==
    LET r1 == RngNext(st.rng)
        i == Randbelow(r1, Len(cs))
        r2 == RngNext(r1)
        j == Randbelow(r2, Len(cs))
    IN IF i = j THEN [st EXCEPT !.rng = r2]
       ELSE CHOOSE v \in {IF gain > st.best_gain
                            THEN [best_gain |-> gain, best_swap |-> <<i, j>>, rng |-> r2]
                            ELSE [st EXCEPT !.rng = r2] :
                          gain \in {SwapGain(cs, i, j, gs)}} : TRUE

\* the sampling loop of one optimizer iteration
SamplePairs(cs, gs, pairs_to_check, r) ==
    ForRange(LAMBDA st, k : SamplePair(st, cs, gs),
             [best_gain |-> 0, best_swap |-> NoSwap, rng |-> r], 0, pairs_to_check)

\* a variant that assigns one way only: cells[i] = cells[j]
ApplyOverwrite(cs, i, j) == [cs EXCEPT ![i + 1] = cs[j + 1]]

\* i, j = best_swap; cells[i], cells[j] = cells[j], cells[i]
ApplySwap(cs, i, j) == Swap(cs, i, j)

\* a variant that never breaks: without a positive gain it goes on to the next step
ApplyBestNoBreak(cs, s) ==
    IF s.best_swap /= NoSwap /\ s.best_gain > 0
      THEN [cells |-> ApplySwap(cs, s.best_swap[1], s.best_swap[2]), rng |-> s.rng,
            swap |-> s.best_swap, gain |-> s.best_gain, break |-> FALSE]
      ELSE [cells |-> cs, rng |-> s.rng, swap |-> NoSwap, gain |-> s.best_gain,
            break |-> FALSE]

\* the end of an iteration of the outer loop, s being what the sampling loop left:
\* if best_swap and best_gain > 0, the swap is applied; otherwise break
ApplyBest(cs, s) ==
    IF s.best_swap /= NoSwap /\ s.best_gain > 0
      THEN [cells |-> ApplySwap(cs, s.best_swap[1], s.best_swap[2]), rng |-> s.rng,
            swap |-> s.best_swap, gain |-> s.best_gain, break |-> FALSE]
      ELSE [cells |-> cs, rng |-> s.rng, swap |-> NoSwap, gain |-> s.best_gain,
            break |-> TRUE]

\* one iteration of the outer loop of _optimize_stroop_interference
OptimizeIteration(cs, gs, r) ==
    CHOOSE v \in {ApplyBest(cs, s) :
                    s \in {SamplePairs(cs, gs, Min(MaxPairsToCheck, Len(cs) * 2), r)}} : TRUE

\* cells_flat[start:end]
Slice(x, start, end) ==
    LET lo == Min(start, Len(x))
        hi == Min(end, Len(x))
    IN IF hi <= lo THEN <<>> ELSE SubSeq(x, lo + 1, hi)

\* a variant whose slices end one cell early
ReshapeShortRows(cf) ==
    [row_idx \in 1..ROWS |-> Slice(cf, (row_idx - 1) * COLS, (row_idx - 1) * COLS + COLS - 1)]

\* _reshape_to_grid
ReshapeToGrid(cf) == [row_idx \in 1..ROWS |-> Slice(cf, (row_idx - 1) * COLS, (row_idx - 1) * COLS + COLS)]

\* the flat list of ink colors _count_ink_colors collects, row by row
RECURSIVE InkOfRows(_, _)
InkOfRows(c2d, k) ==
    IF k > Len(c2d) THEN <<>>
    ELSE [n \in 1..Len(c2d[k]) |-> c2d[k][n].ink_color] \o InkOfRows(c2d, k + 1)

\* Counter(xs): the elements that occur, each with its number of occurrences
Counter(xs) == [t \in Range(xs) |-> Cardinality({k \in 1..Len(xs) : xs[k] = t})]

\* _count_ink_colors
CountInkColors(c2d) == Counter(InkOfRows(c2d, 1))

\* a variant that reports the seed of the attempt
GridMetadataOfAttempt(s, cs, cp, cc) == PuzzleMetadata(cs, ROWS, COLS, cp, cc)

\* the metadata generate builds on both of its return paths, from self.seed (s)
\* and not from current_seed (cs)
GridMetadata(s, cs, cp, cc) == PuzzleMetadata(s, ROWS, COLS, cp, cc)

\* a variant with the loop test off by one: while attempts <= self.MAX_RETRIES
LoopContinuesInclusive(a) == a <= MAX_RETRIES

\* while attempts < self.MAX_RETRIES
LoopContinues(a) == a < MAX_RETRIES

\* a variant that builds the Random of every attempt from self.seed
AttemptRngOfSelfSeed(cs, r) == RngNew(seed)

\* a variant that goes on with the generator object as the last call left it
AttemptRngKept(cs, r) == r

\* self._rng = random.Random(current_seed), whatever state self._rng (r) was in
AttemptRng(cs, r) == RngNew(cs)

\* a variant that returns on the exhaustion path without a warning
LogNothing(lg, a) == lg

\* the warning of the exhaustion path, appended to the records logged so far
LogExhausted(lg, a) ==
    Append(lg, [warning |-> "max retries exhausted", attempt |-> a, issues |-> <<>>])

\* the warning of a failed validation
LogValidationFailed(lg, a, issues) ==
    Append(lg, [warning |-> "validation failed", attempt |-> a, issues |-> issues])

\* 2**31 is not representable: x % 2**31 is computed on 16-bit halves
Half == 65536
HalfHi == 32768
Pow30 == 1073741824

\* a reading of time.time_ns(): a 64-bit number as four 16-bit digits, lowest first
ZeroClock == <<0, 0, 0, 0>>

\* _generate_seed: int(time.time_ns() % (2**31)), the low 31 bits of the reading
GenerateSeed(time_ns) == time_ns[1] + (time_ns[2] % HalfHi) * Half

\* a variant that leaves the attempt number out: (original_seed * 31) % 2**31
DeriveWithoutAttempt(original_seed, attempt) ==
    LET hi == original_seed \div Half
        lo == original_seed % Half
        a == ((31 * hi) % HalfHi) * Half
        b == 31 * lo
        a30 == IF a >= Pow30 THEN a - Pow30 ELSE a
        sum == a30 + b
    IN IF a >= Pow30
         THEN (IF sum >= Pow30 THEN sum - Pow30 ELSE sum + Pow30)
         ELSE sum

\* _derive_new_seed: (original_seed * 31 + attempt) % 2**31, for 0 <= s < 2**31
DeriveNewSeed(original_seed, attempt) ==
    LET hi == original_seed \div Half
        lo == original_seed % Half
        a == ((31 * hi) % HalfHi) * Half
        b == 31 * lo + attempt
        a30 == IF a >= Pow30 THEN a - Pow30 ELSE a
        sum == a30 + b
    IN IF a >= Pow30
         THEN (IF sum >= Pow30 THEN sum - Pow30 ELSE sum + Pow30)
         ELSE sum

(***************************************************************************)
(* Configurations.                                                         *)
(***************************************************************************)
SeedList == <<42, 2147483647, 0, 12345, 99999>>
Seeds == {SeedList[k] : k \in 1..Min(NumSeeds, Len(SeedList))}
ColorCounts == 2..8
Congruences == {0, 1, CongruenceDenom}
Validators == {"DistributionValidator", "stub"}

\* the inputs of direct optimizer calls: rows x cols lists passed with cols
OptShapes == {<<0, 2>>, <<1, 1>>, <<2, 2>>, <<2, 3>>, <<3, 2>>, <<3, 3>>}
OptTokens == Range(DEFAULT_COLOR_SUBSETS[2])
OptCellValues == {PuzzleCell(w, i) : w \in OptTokens, i \in OptTokens}
OptIncongruent == {c \in OptCellValues : c.word /= c.ink_color}
OptInputs(n) ==
    {f \in [1..n -> OptCellValues] : \A k \in 1..n : k > FullCells => f[k] \in OptIncongruent}

\* the arguments of __init__: seed is None when seed_given is FALSE, and time_ns is
\* what time.time_ns() returns during the call
InitArgs(seed_given, s, time_ns, cp, cc) ==
    [seed_given |-> seed_given, seed |-> s, time_ns |-> time_ns,
     congruence_percentage |-> cp, color_count |-> cc]

\* self.seed = seed if seed is not None else self._generate_seed()
InitSeed(args) == IF args.seed_given THEN args.seed ELSE GenerateSeed(args.time_ns)

\* the state __init__ leaves, before any call; vk tells whether self._validator is
\* then replaced by a substitute
ConstructedFrom(args, vk) ==
    /\ init_args = args
    /\ seed = InitSeed(args)
    /\ congruence_percentage = args.congruence_percentage
    /\ color_count = ClampColorCount(args.color_count)
    /\ colors = DEFAULT_COLOR_SUBSETS[ClampColorCount(args.color_count)]
    /\ rng = RngNew(InitSeed(args))
    /\ rng_seed = InitSeed(args)
    /\ validator = IF vk = "stub" THEN [kind |-> "stub"]
                   ELSE InitValidator(ClampColorCount(args.color_count))
    /\ pc = "idle"
    /\ generator = 1
    /\ current_seed = Unbound
    /\ attempts = 0
    /\ cells_flat = <<>>
    /\ cells_2d = <<>>
    /\ cells = <<>>
    /\ grid_size = 0
    /\ max_swaps = 0
    /\ swap_step = 0
    /\ caller = None
    /\ last_swap = NoSwap
    /\ optimized = <<>>
    /\ returned = <<>>
    /\ log = <<>>
    /\ direct = NoCall
    /\ other = NoOther

\* __init__ called with an explicit seed
Constructed(s, cp, cc, vk) == ConstructedFrom(InitArgs(TRUE, s, ZeroClock, cp, cc), vk)

Init ==
    \E s \in Seeds, cp \in Congruences, cc \in ColorCounts, vk \in Validators :
        Constructed(s, cp, cc, vk)

instance_fields ==
    <<init_args, seed, congruence_percentage, color_count, colors, validator>>
same_generator == <<generator, instance_fields>>
aside == <<direct, other>>

\* generate is called: lines 135-136
Generate ==
    /\ pc = "idle"
    /\ Len(returned) < (IF validator.kind = "stub" THEN 1 ELSE MaxCalls)
    /\ pc' = "loop"
    /\ current_seed' = seed
    /\ attempts' = 0
    /\ UNCHANGED <<aside, same_generator, rng, rng_seed, cells_flat, cells_2d, cells, grid_size,
                   max_swaps, swap_step, caller, last_swap, optimized, returned, log>>

\* the caller, having used the generator it holds, constructs a new PuzzleGenerator
\* with the same arguments and goes on with it: __init__, lines 101-114
Reconstruct ==
    /\ pc = "idle"
    /\ Len(returned) >= generator
    /\ Len(returned) < (IF validator.kind = "stub" THEN 1 ELSE MaxCalls)
    /\ generator' = generator + 1
    /\ rng' = RngNew(seed)
    /\ rng_seed' = seed
    /\ UNCHANGED <<aside, pc, instance_fields, current_seed, attempts, cells_flat, cells_2d, cells,
                   grid_size, max_swaps, swap_step, caller, last_swap, optimized,
                   returned, log>>

\* one pass of the while loop up to the optimizer's entry: lines 138-154, 359
AttemptBegin ==
    /\ pc = "loop"
    /\ LoopContinues(attempts)
    /\ \E ink_colors \in {CreateInkDistribution(colors, color_count,
                                                 AttemptRng(current_seed, rng))} :
         \E assigned \in {AssignWords(ink_colors.list, colors, congruence_percentage,
                                      ink_colors.rng)} :
           \E shuffled \in {Shuffle(assigned.list, assigned.rng)} :
              /\ cells_flat' = shuffled.list
              /\ rng' = shuffled.rng
              /\ cells' = shuffled.list
    /\ rng_seed' = current_seed
    /\ grid_size' = COLS
    /\ max_swaps' = DefaultMaxSwaps
    /\ swap_step' = 0
    /\ caller' = "generate"
    /\ last_swap' = NoSwap
    /\ pc' = IF DefaultMaxSwaps > 0 THEN "optimize" ELSE "optimized"
    /\ UNCHANGED <<aside, same_generator, current_seed, attempts, cells_2d, optimized,
                   returned, log>>

\* a variant without the copy: the working list is the caller's list itself
ArgumentAliased(argument, working) == working

\* cells = list(cells), line 359: the working list is a copy, so the caller's list
\* keeps its cells whatever the optimizer writes to the working list
ArgumentAfterStep(argument, working) == argument

\* one iteration of the optimizer's outer loop, up to the break or the end of the
\* range: lines 361-397
OptimizeStep ==
    /\ pc = "optimize"
    /\ swap_step < max_swaps
    /\ \E it \in {OptimizeIteration(cells, grid_size, rng)} :
          /\ cells' = it.cells
          /\ cells_flat' = ArgumentAfterStep(cells_flat, it.cells)
          /\ rng' = it.rng
          /\ last_swap' = it.swap
          /\ swap_step' = swap_step + 1
          /\ pc' = IF it.break \/ swap_step + 1 >= max_swaps THEN "optimized" ELSE "optimize"
    /\ UNCHANGED <<aside, same_generator, rng_seed, current_seed, attempts, cells_2d,
                   grid_size, max_swaps, caller, optimized, returned, log>>

\* the optimizer returns to generate, which reshapes, counts and validates:
\* lines 399, 152, 157-161, then 163-172 or 175-182
ValidateAttempt ==
    /\ pc = "optimized"
    /\ caller = "generate"
    /\ \E c2d \in {ReshapeToGrid(cells)} : \E ink_counts \in {CountInkColors(c2d)} :
          /\ cells_flat' = cells
          /\ cells_2d' = c2d
          /\ \E validation_result \in
                 IF validator.kind = "stub"
                   THEN {[is_valid |-> ok, issues |-> IF ok THEN <<>> ELSE <<"stub">>] :
                            ok \in BOOLEAN}
                   ELSE {Validate(validator, ink_counts, colors)} :
               IF validation_result.is_valid
                 THEN /\ returned' = Append(returned, PuzzleGrid(c2d,
                              GridMetadata(seed, current_seed, congruence_percentage,
                                           color_count)))
                      /\ pc' = "idle"
                      /\ UNCHANGED <<attempts, current_seed, log>>
                 ELSE /\ attempts' = attempts + 1
                      /\ log' = LogValidationFailed(log, attempts + 1,
                                                    validation_result.issues)
                      /\ current_seed' = DeriveNewSeed(current_seed, attempts + 1)
                      /\ pc' = "loop"
                      /\ UNCHANGED returned
    /\ UNCHANGED <<aside, same_generator, rng, rng_seed, cells, grid_size, max_swaps, swap_step,
                   caller, last_swap, optimized>>

\* the while loop ends with the retries exhausted: lines 184-196
ReturnExhausted ==
    /\ pc = "loop"
    /\ ~LoopContinues(attempts)
    /\ log' = LogExhausted(log, MAX_RETRIES)
    /\ returned' = Append(returned, PuzzleGrid(cells_2d,
                          GridMetadata(seed, current_seed, congruence_percentage,
                                       color_count)))
    /\ pc' = "idle"
    /\ UNCHANGED <<aside, same_generator, rng, rng_seed, current_seed, attempts, cells_flat, cells_2d,
                   cells, grid_size, max_swaps, swap_step, caller, last_swap, optimized>>

\* _optimize_stroop_interference is called on its own with a list, a grid size and
\* a step cap (as tests/test_stroop_optimization.py does): lines 339-359
CallOptimize ==
    /\ pc = "idle"
    /\ optimized = <<>>
    /\ \E shape \in OptShapes, cap \in 0..MaxStepCap :
         \E input \in OptInputs(shape[1] * shape[2]) :
            /\ cells_flat' = input
            /\ cells' = input
            /\ grid_size' = shape[2]
            /\ max_swaps' = cap
            /\ pc' = IF cap > 0 THEN "optimize" ELSE "optimized"
    /\ swap_step' = 0
    /\ caller' = "direct"
    /\ last_swap' = NoSwap
    /\ UNCHANGED <<aside, same_generator, rng, rng_seed, current_seed, attempts, cells_2d,
                   optimized, returned, log>>

\* the direct call returns the copy: line 399
ReturnOptimized ==
    /\ pc = "optimized"
    /\ caller = "direct"
    /\ optimized' = Append(optimized, cells)
    /\ pc' = "idle"
    /\ UNCHANGED <<aside, same_generator, rng, rng_seed, current_seed, attempts, cells_flat,
                   cells_2d, cells, grid_size, max_swaps, swap_step, caller, last_swap,
                   returned, log>>

Next ==
    \/ Generate
    \/ Reconstruct
    \/ AttemptBegin
    \/ OptimizeStep
    \/ ValidateAttempt
    \/ ReturnExhausted

Spec == Init /\ [][Next]_vars

\* generate is synchronous: once called it runs to its return.  The configurations
\* are those of the first seed with the smallest and the largest color subset
LiveInit ==
    \E cc \in {2, 8}, vk \in Validators : Constructed(SeedList[1], 1, cc, vk)

LiveSpec == LiveInit /\ [][Next]_vars /\ WF_vars(Next)

\* direct calls of the optimizer on a generator with the two-colour subset, for the
\* first two seeds
OptInit ==
    \E s \in {SeedList[1], SeedList[2]} : Constructed(s, 1, 2, "DistributionValidator")

OptNext ==
    \/ CallOptimize
    \/ OptimizeStep
    \/ ReturnOptimized

OptSpec == OptInit /\ [][OptNext]_vars

\* a direct call is synchronous too: once made it runs to its return.  The lists
\* are the empty one, the single cell, the 2 x 2 ones and the 3 x 2 ones
LiveShapes == {<<0, 2>>, <<1, 1>>, <<2, 2>>, <<3, 2>>}

CallOptimizeLive ==
    /\ pc = "idle"
    /\ optimized = <<>>
    /\ \E shape \in LiveShapes, cap \in 0..MaxStepCap :
         \E input \in OptInputs(shape[1] * shape[2]) :
            /\ cells_flat' = input
            /\ cells' = input
            /\ grid_size' = shape[2]
            /\ max_swaps' = cap
            /\ pc' = IF cap > 0 THEN "optimize" ELSE "optimized"
    /\ swap_step' = 0
    /\ caller' = "direct"
    /\ last_swap' = NoSwap
    /\ UNCHANGED <<aside, same_generator, rng, rng_seed, current_seed, attempts, cells_2d,
                   optimized, returned, log>>

OptLiveInit == Constructed(SeedList[1], 1, 2, "DistributionValidator")

OptLiveNext ==
    \/ CallOptimizeLive
    \/ OptimizeStep
    \/ ReturnOptimized

OptLiveSpec == OptLiveInit /\ [][OptLiveNext]_vars /\ WF_vars(OptLiveNext)

\* every variable of a generate or optimizer call
call_vars == <<pc, same_generator, rng, rng_seed, current_seed, attempts, cells_flat, cells_2d,
               cells, grid_size, max_swaps, swap_step, caller, last_swap, optimized,
               returned, log>>

\* the arguments of direct calls of validate: limits, counts of some tokens, and the
\* list of active colors (or None)
ValLimits == (0..MaxCount) \X (0..MaxCount)
ValTokens == {"BLACK", "BROWN", "BLUE", "YELLOW"}
ValCounts == UNION {[D -> 0..MaxCount] : D \in SUBSET ValTokens}
ValActives ==
    {NoList, <<>>, <<"YELLOW">>, <<"BLACK", "YELLOW">>, <<"BLACK", "BLACK">>,
     <<"BLACK", "BLUE", "ORANGE", "YELLOW">>}

\* DistributionValidator(min_count, max_count).validate(color_counts, active_colors)
\* is called on its own, as tests/test_puzzle_generator_validation.py does
ValidateCall ==
    /\ pc = "idle"
    /\ direct = NoCall
    /\ \E limits \in ValLimits, color_counts \in ValCounts, active_colors \in ValActives :
          direct' = [op |-> "validate",
                     validator |-> DistributionValidator(limits[1], limits[2]),
                     color_counts |-> color_counts,
                     active_colors |-> active_colors,
                     result |-> Validate(DistributionValidator(limits[1], limits[2]),
                                         color_counts, active_colors)]
    /\ UNCHANGED <<call_vars, other>>

\* the shapes of the lists passed to _interference_at: rows and columns
RectShapes == (1..MaxSide) \X (1..MaxSide)

\* _interference_at is called at every index of a rows x cols list, with the column
\* count as grid_size: the neighbours it reads, per index
NeighboursCall ==
    /\ pc = "idle"
    /\ direct = NoCall
    /\ \E shape \in RectShapes :
         \E input \in {[k \in 1..(shape[1] * shape[2]) |-> PuzzleCell("BLACK", "BLACK")]} :
            direct' = [op |-> "neighbours",
                       rows |-> shape[1],
                       cols |-> shape[2],
                       used |-> [idx \in 0..(Len(input) - 1) |->
                                    NeighboursUsed(input, idx, shape[2])]]
    /\ UNCHANGED <<call_vars, other>>

\* the four-neighbourhood of a tile of a gridSize x gridSize grid: the in-bounds
\* tiles above, below, left and right
GetAdjacentTileIndices(tileIndex, gridSize) ==
    LET row == tileIndex \div gridSize
        col == tileIndex % gridSize
    IN (IF row > 0 THEN {tileIndex - gridSize} ELSE {})
       \cup (IF row < gridSize - 1 THEN {tileIndex + gridSize} ELSE {})
       \cup (IF col > 0 THEN {tileIndex - 1} ELSE {})
       \cup (IF col < gridSize - 1 THEN {tileIndex + 1} ELSE {})

\* a variant that compares the answer with the neighbours' inks
AnalyzeInkInfluence(cs, gridSize, tileIndex, answer) ==
    IF answer = cs[tileIndex + 1].ink_color THEN "Correct"
    ELSE IF \E j \in GetAdjacentTileIndices(tileIndex, gridSize) :
                cs[j + 1].ink_color = answer
           THEN "IncorrectStroopInfluenced"
           ELSE "IncorrectNonStroop"

\* the class of one answered cell: Correct when the answer is the ink; otherwise
\* IncorrectStroopInfluenced when the answer is the word of a neighbour, and
\* IncorrectNonStroop when it is not
AnalyzeStroopInfluence(cs, gridSize, tileIndex, answer) ==
    IF answer = cs[tileIndex + 1].ink_color THEN "Correct"
    ELSE IF \E j \in GetAdjacentTileIndices(tileIndex, gridSize) :
                cs[j + 1].word = answer
           THEN "IncorrectStroopInfluenced"
           ELSE "IncorrectNonStroop"

\* analyze(Grid, answers): the class of every answered cell, and the totals
Analyze(cs, gridSize, answers) ==
    LET per_cell == [c \in DOMAIN answers |->
                        AnalyzeStroopInfluence(cs, gridSize, c, answers[c])]
        stroop == Cardinality({c \in DOMAIN answers :
                                  per_cell[c] = "IncorrectStroopInfluenced"})
        non == Cardinality({c \in DOMAIN answers : per_cell[c] = "IncorrectNonStroop"})
    IN [per_cell |-> per_cell,
        totals |-> [mistakes |-> stroop + non, stroop_influenced |-> stroop,
                    non_stroop |-> non]]

\* the grids and answers passed to analyze: square grids of side 1 to 3 over the
\* two-colour subset, and answers (one of three tokens) for none, one or two cells
AnalyzeSides == 1..3
AnswerTokens == {"BLACK", "BLUE", "YELLOW"}
AnswerMaps(n) ==
    UNION {[D -> AnswerTokens] : D \in {{}, {0}, {n \div 2}, {0, n - 1}}}

\* analyze is called on a grid and the user's answers
AnalyzeCall ==
    /\ pc = "idle"
    /\ direct = NoCall
    /\ \E side \in AnalyzeSides :
         \E input \in OptInputs(side * side), answers \in AnswerMaps(side * side) :
            direct' = [op |-> "analyze",
                       cells |-> input,
                       grid_size |-> side,
                       answers |-> answers,
                       result |-> Analyze(input, side, answers)]
    /\ UNCHANGED <<call_vars, other>>

\* the square lists whose pairs are scored: sides 1 to 3
GainSides == 1..3

\* the gain computation of the sampling loop (lines 374-391) is run on every pair
\* i /= j of a square list: trial swap, after, swap back, gain = after - before
GainCall ==
    /\ pc = "idle"
    /\ direct = NoCall
    /\ \E side \in GainSides : \E input \in OptInputs(side * side) :
          direct' = [op |-> "gain",
                     cells |-> input,
                     grid_size |-> side,
                     gain |-> [pair \in {q \in (0..(Len(input) - 1)) \X (0..(Len(input) - 1)) :
                                            q[1] /= q[2]} |->
                                  SwapGain(input, pair[1], pair[2], side)]]
    /\ UNCHANGED <<call_vars, other>>

\* _interference_at is called at every index of a square list
InterferenceCall ==
    /\ pc = "idle"
    /\ direct = NoCall
    /\ \E side \in GainSides : \E input \in OptInputs(side * side) :
          direct' = [op |-> "interference",
                     cells |-> input,
                     grid_size |-> side,
                     used |-> [idx \in 0..(Len(input) - 1) |->
                                  NeighboursUsed(input, idx, side)],
                     result |-> [idx \in 0..(Len(input) - 1) |->
                                    InterferenceAt(input, idx, side)]]
    /\ UNCHANGED <<call_vars, other>>

HelperInit == Constructed(SeedList[1], 1, 4, "DistributionValidator")

HelperNext ==
    \/ ValidateCall
    \/ NeighboursCall
    \/ AnalyzeCall
    \/ GainCall
    \/ InterferenceCall

HelperSpec == HelperInit /\ [][HelperNext]_vars

\* _optimize_stroop_interference from its entry to its return: lines 339-399
OptimizeStroopInterference(cells_flat_in, gs, max_swaps_in, r) ==
    ForRange(LAMBDA st, k :
                 IF st.break THEN st
                 ELSE CHOOSE v \in {[cells |-> it.cells, rng |-> it.rng, break |-> it.break] :
                                       it \in {OptimizeIteration(st.cells, gs, st.rng)}} : TRUE,
             [cells |-> cells_flat_in, rng |-> r, break |-> FALSE], 0, max_swaps_in)

\* one pass of the while loop of generate on the generator gen: lines 139-158
GenerateAttempt(gen, current_seed_in) ==
    CHOOSE v \in
        {[cells_2d |-> c2d,
          validation_result |-> Validate(gen.validator, CountInkColors(c2d), gen.colors)] :
            c2d \in {ReshapeToGrid(
                OptimizeStroopInterference(shuffled.list, COLS, DefaultMaxSwaps,
                                           shuffled.rng).cells) :
                shuffled \in {Shuffle(assigned.list, assigned.rng) :
                    assigned \in {AssignWords(ink_colors.list, gen.colors,
                                              gen.congruence_percentage, ink_colors.rng) :
                        ink_colors \in {CreateInkDistribution(gen.colors, gen.color_count,
                                             AttemptRng(current_seed_in, gen.rng))}}}}} : TRUE

\* generate from the head of its while loop to its return: lines 138-196
RECURSIVE GenerateFrom(_, _, _, _)
GenerateFrom(gen, current_seed_in, attempts_in, last_cells_2d) ==
    IF ~LoopContinues(attempts_in)
      THEN PuzzleGrid(last_cells_2d,
                      GridMetadata(gen.seed, current_seed_in, gen.congruence_percentage,
                                   gen.color_count))
      ELSE CHOOSE v \in
              {IF a.validation_result.is_valid
                 THEN PuzzleGrid(a.cells_2d,
                                 GridMetadata(gen.seed, current_seed_in,
                                              gen.congruence_percentage, gen.color_count))
                 ELSE GenerateFrom(gen, DeriveNewSeed(current_seed_in, attempts_in + 1),
                                   attempts_in + 1, a.cells_2d) :
                  a \in {GenerateAttempt(gen, current_seed_in)}} : TRUE

\* the fields __init__ sets: lines 101-114
NewGenerator(args) ==
    [init_args |-> args,
     seed |-> InitSeed(args),
     congruence_percentage |-> args.congruence_percentage,
     color_count |-> ClampColorCount(args.color_count),
     colors |-> DEFAULT_COLOR_SUBSETS[ClampColorCount(args.color_count)],
     rng |-> RngNew(InitSeed(args)),
     validator |-> InitValidator(ClampColorCount(args.color_count))]

\* PuzzleGenerator(args).generate(), run with nothing else running
GenerateAlone(args) == GenerateFrom(NewGenerator(args), InitSeed(args), 0, <<>>)

\* the configurations of the two generators that run side by side
PairArgs ==
    {InitArgs(TRUE, SeedList[2], ZeroClock, CongruenceDenom - 1, 2),
     InitArgs(TRUE, SeedList[1], ZeroClock, CongruenceDenom - 1, 4)}

\* a second generator is constructed before any call is made: lines 101-114
ConstructOther ==
    /\ pc = "idle"
    /\ returned = <<>>
    /\ ~other.present
    /\ \E args \in PairArgs : \E gen \in {NewGenerator(args)} :
          other' = [present |-> TRUE, overlapped |-> FALSE,
                    pc |-> "idle", generator |-> 2, init_args |-> gen.init_args,
                    seed |-> gen.seed,
                    congruence_percentage |-> gen.congruence_percentage,
                    color_count |-> gen.color_count, colors |-> gen.colors,
                    rng |-> gen.rng, rng_seed |-> gen.seed, validator |-> gen.validator,
                    current_seed |-> Unbound, attempts |-> 0, cells_flat |-> <<>>,
                    cells_2d |-> <<>>, cells |-> <<>>, grid_size |-> 0, max_swaps |-> 0,
                    swap_step |-> 0, caller |-> None, last_swap |-> NoSwap,
                    optimized |-> <<>>, returned |-> <<>>]
    /\ UNCHANGED <<call_vars, direct>>

\* the generator whose thread is resumed works with a Random of its own (self._rng,
\* lines 106 and 140), in the state its thread left it
RngShared(running, suspended) == running
RngResumed(running, suspended) == suspended

\* the scheduler suspends the running thread and resumes the other one: each thread
\* has its own generator (the fields of self) and its own locals; the module's
\* logger is the one object both reach
Switch ==
    /\ other.present
    /\ other' = [present |-> TRUE,
                 overlapped |-> other.overlapped \/ (pc /= "idle" /\ other.pc /= "idle"),
                 pc |-> pc, generator |-> generator, init_args |-> init_args,
                 seed |-> seed, congruence_percentage |-> congruence_percentage,
                 color_count |-> color_count, colors |-> colors, rng |-> rng,
                 rng_seed |-> rng_seed, validator |-> validator,
                 current_seed |-> current_seed, attempts |-> attempts,
                 cells_flat |-> cells_flat, cells_2d |-> cells_2d, cells |-> cells,
                 grid_size |-> grid_size, max_swaps |-> max_swaps,
                 swap_step |-> swap_step, caller |-> caller, last_swap |-> last_swap,
                 optimized |-> optimized, returned |-> returned]
    /\ pc' = other.pc
    /\ generator' = other.generator
    /\ init_args' = other.init_args
    /\ seed' = other.seed
    /\ congruence_percentage' = other.congruence_percentage
    /\ color_count' = other.color_count
    /\ colors' = other.colors
    /\ rng' = RngResumed(rng, other.rng)
    /\ rng_seed' = other.rng_seed
    /\ validator' = other.validator
    /\ current_seed' = other.current_seed
    /\ attempts' = other.attempts
    /\ cells_flat' = other.cells_flat
    /\ cells_2d' = other.cells_2d
    /\ cells' = other.cells
    /\ grid_size' = other.grid_size
    /\ max_swaps' = other.max_swaps
    /\ swap_step' = other.swap_step
    /\ caller' = other.caller
    /\ last_swap' = other.last_swap
    /\ optimized' = other.optimized
    /\ returned' = other.returned
    /\ UNCHANGED <<log, direct>>

\* each of the two threads calls generate once
GenerateOnce ==
    /\ returned = <<>>
    /\ Generate

PairInit == \E args \in PairArgs : ConstructedFrom(args, "DistributionValidator")

PairNext ==
    \/ ConstructOther
    \/ Switch
    \/ GenerateOnce
    \/ AttemptBegin
    \/ OptimizeStep
    \/ ValidateAttempt

PairSpec == PairInit /\ [][PairNext]_vars

\* the arguments of the constructor beyond the ranges the documentation names:
\* color counts below 2 and above 8, congruences below 0 and above 1, and no seed
\* with the clock at readings whose low 31 bits are 0, 1, 2**31 - 1 and in between
ColorCountArgs == {-1, 0, 1, 2, 3, 4, 5, 6, 7, 8, 9, 10}
CongruenceArgs == {-1, 0, CongruenceDenom, CongruenceDenom + 1, 2 * CongruenceDenom}
ClockReadings ==
    {ZeroClock, <<0, 32768, 1, 0>>, <<0, 0, 27000, 6000>>, <<1, 0, 5, 0>>,
     <<65535, 32767, 0, 0>>, <<65535, 65535, 65535, 32767>>, <<12345, 54321, 27182, 6283>>}
ConfigArgs ==
    {InitArgs(TRUE, SeedList[1], ZeroClock, 1, cc) : cc \in ColorCountArgs}
    \cup {InitArgs(TRUE, SeedList[1], ZeroClock, cp, 4) : cp \in CongruenceArgs}
    \cup {InitArgs(FALSE, 0, t, 1, 4) : t \in ClockReadings}

ConfigInit == \E args \in ConfigArgs : ConstructedFrom(args, "DistributionValidator")

ConfigNext ==
    \/ Generate
    \/ AttemptBegin
    \/ OptimizeStep
    \/ ValidateAttempt

ConfigSpec == ConfigInit /\ [][ConfigNext]_vars

\* _create_ink_distribution is called on its own between calls of generate (as
\* tests/test_stroop_optimization.py does): its shuffle draws from self._rng, lines
\* 229-250.  The call is recorded with the number of grids returned before it
CreateInkDistributionCall ==
    /\ pc = "idle"
    /\ direct = NoCall
    /\ \E ink_colors \in {CreateInkDistribution(colors, color_count, rng)} :
          /\ rng' = ink_colors.rng
          /\ direct' = [op |-> "create_ink_distribution",
                        after |-> Len(returned),
                        result |-> ink_colors.list]
    /\ UNCHANGED <<other, pc, same_generator, rng_seed, current_seed, attempts, cells_flat,
                   cells_2d, cells, grid_size, max_swaps, swap_step, caller, last_swap,
                   optimized, returned, log>>

\* one generator that keeps its own validator, called repeatedly, with a helper
\* call before, between or after the calls of generate: the smallest subset, one
\* that does not divide 64, and the full palette
RepeatColorCounts == {2, 3, 8}

RepeatInit ==
    \E s \in Seeds, cp \in Congruences, cc \in RepeatColorCounts :
        Constructed(s, cp, cc, "DistributionValidator")

RepeatNext ==
    \/ Generate
    \/ AttemptBegin
    \/ OptimizeStep
    \/ ValidateAttempt
    \/ CreateInkDistributionCall

RepeatSpec == RepeatInit /\ [][RepeatNext]_vars

(***************************************************************************)
(* Properties.                                                             *)
(***************************************************************************)
\* the <<row, column>> positions a grid has cells at
GridPositions(g) ==
    UNION {{<<r, c>> : c \in DOMAIN g.cells[r]} : r \in DOMAIN g.cells}

\* how many cells of a grid have ink color t
InkCount(g, t) ==
    Cardinality({p \in GridPositions(g) : g.cells[p[1]][p[2]].ink_color = t})

\* how many cells of a grid are congruent (word = ink)
CongruentCount(g) ==
    Cardinality({p \in GridPositions(g) :
                    g.cells[p[1]][p[2]].word = g.cells[p[1]][p[2]].ink_color})

\* C1: reproducibility.  All the grids generate has returned for one configuration
\* (seed, color_count, congruence), whether the calls were made on the same generator
\* or on separately constructed ones, have equal metadata and are equal cell by
\* cell: the same word and the same ink at every row and column.
C1_Reproducible ==
    \A a, b \in 1..Len(returned) :
        /\ returned[a].metadata = returned[b].metadata
        /\ GridPositions(returned[a]) = GridPositions(returned[b])
        /\ \A p \in GridPositions(returned[a]) :
              /\ returned[a].cells[p[1]][p[2]].word = returned[b].cells[p[1]][p[2]].word
              /\ returned[a].cells[p[1]][p[2]].ink_color
                    = returned[b].cells[p[1]][p[2]].ink_color

\* two grids have been returned, the second by a second generator
C1_Witness ==
    /\ Len(returned) = 2
    /\ generator = 2
    /\ pc = "idle"

\* C2: generate terminates and returns a grid.  Whatever the validator answers, an
\* attempt is only ever under way with fewer than MAX_RETRIES = 3 failures counted
\* (the loop body runs at most 3 times), a call that is under way always comes to
\* its end, and it ends by appending one PuzzleGrid to what has been returned.
C2_GenerateTerminates ==
    /\ [](attempts <= 3)
    /\ [](pc \in {"optimize", "optimized"} => attempts < 3)
    /\ ((pc /= "idle") ~> (pc = "idle"))
    /\ [][(pc /= "idle" /\ pc' = "idle") =>
            /\ Len(returned') = Len(returned) + 1
            /\ DOMAIN returned'[Len(returned')] = {"cells", "metadata"}]_vars

\* a call has ended on its third attempt, after two failed validations
C2_Witness ==
    /\ pc = "idle"
    /\ Len(returned) = 1
    /\ attempts = 2
    /\ Len(log) = 2

\* C3: the metadata seed of every returned grid is the seed the generator was
\* constructed with, on the first-attempt path, after retries and on the exhaustion
\* path; it is never a seed derived for a retry.
C3_MetadataSeed ==
    \A n \in 1..Len(returned) : returned[n].metadata.seed = seed

\* a grid has been returned by a retry, whose seed differs from the caller's
C3_Witness ==
    /\ pc = "idle"
    /\ Len(returned) = 1
    /\ attempts = 1
    /\ current_seed /= seed
    /\ rng_seed = current_seed

\* the log holds the exhaustion warning
ExhaustionLogged == \E k \in 1..Len(log) : log[k].warning = "max retries exhausted"

\* C4: when validation has failed on all MAX_RETRIES attempts, generate returns the
\* grid of the third attempt, the attempt whose generator was seeded with the second
\* derived seed, and logs the exhaustion warning after the three failure warnings;
\* a call that returns with fewer failures logs no exhaustion warning.
C4_ExhaustionReturnsLast ==
    /\ (pc = "idle" /\ returned /= <<>> /\ attempts = MAX_RETRIES) =>
          /\ Len(log) = MAX_RETRIES + 1
          /\ log[Len(log)].warning = "max retries exhausted"
          /\ \A k \in 1..MAX_RETRIES :
                log[k].warning = "validation failed" /\ log[k].attempt = k
          /\ rng_seed = DeriveNewSeed(DeriveNewSeed(seed, 1), 2)
          /\ \A p \in GridPositions(returned[Len(returned)]) :
                returned[Len(returned)].cells[p[1]][p[2]] = cells[(p[1] - 1) * COLS + p[2]]
          /\ Cardinality(GridPositions(returned[Len(returned)])) = Len(cells)
    /\ ExhaustionLogged => (pc = "idle" /\ returned /= <<>> /\ attempts = MAX_RETRIES)

\* a call has returned on the exhaustion path
C4_Witness ==
    /\ pc = "idle"
    /\ Len(returned) = 1
    /\ attempts = MAX_RETRIES
    /\ ExhaustionLogged

\* C5: balanced ink distribution.  In every returned grid, with N = rows * cols and
\* K the clamped color count, the i-th token of the subset (i from 0) is the ink of
\* exactly N \div K + (1 if i < N % K else 0) cells, no other token is an ink, and
\* the counts sum to N.
C5_BalancedInk ==
    \A n \in 1..Len(returned) :
        /\ \A i \in 0..(color_count - 1) :
              InkCount(returned[n], DEFAULT_COLOR_SUBSETS[color_count][i + 1])
                 = (64 \div color_count) + (IF i < 64 % color_count THEN 1 ELSE 0)
        /\ \A t \in Range(ColorToken) \ Range(DEFAULT_COLOR_SUBSETS[color_count]) :
              InkCount(returned[n], t) = 0
        /\ Cardinality(GridPositions(returned[n])) = 64

\* a grid has been returned for K = 3, where 64 = 3 * 21 + 1: the first token has
\* 22 cells and the last has 21
C5_Witness ==
    /\ Len(returned) >= 1
    /\ color_count = 3
    /\ InkCount(returned[1], "BLACK") = 22
    /\ InkCount(returned[1], "YELLOW") = 21

\* C6: palette closure.  In every returned grid, for every K in 2..8, the word and
\* the ink of every cell are tokens of the subset of K colors; a token outside the
\* subset is never a word and never an ink.
C6_PaletteClosure ==
    \A n \in 1..Len(returned) : \A p \in GridPositions(returned[n]) :
        /\ returned[n].cells[p[1]][p[2]].word \in Range(DEFAULT_COLOR_SUBSETS[color_count])
        /\ returned[n].cells[p[1]][p[2]].ink_color
              \in Range(DEFAULT_COLOR_SUBSETS[color_count])

\* a grid of the subset of 7 colors has been returned in which a word was drawn from
\* the other colors: the cell is incongruent
C6_Witness ==
    /\ Len(returned) >= 1
    /\ color_count = 7
    /\ CongruentCount(returned[1]) < 64

\* C7: the congruence extremes are exact, for every seed and every K in 2..8.  With
\* p = 0 a returned grid has no cell with word = ink; with p = 1 every one of its
\* N = 64 cells has word = ink.
C7_CongruenceExtremes ==
    \A n \in 1..Len(returned) :
        /\ congruence_percentage = 0 => CongruentCount(returned[n]) = 0
        /\ congruence_percentage = CongruenceDenom =>
              /\ CongruentCount(returned[n]) = 64
              /\ Cardinality(GridPositions(returned[n])) = 64

\* a grid has been returned with p = 0 for the subset of 2 colors, where the one
\* other color is the word of every cell
C7_Witness ==
    /\ Len(returned) >= 1
    /\ congruence_percentage = 0
    /\ color_count = 2
    /\ CongruentCount(returned[1]) = 0

\* the words and the inks of a cell list
WordsOf(cs) == [k \in 1..Len(cs) |-> cs[k].word]
InksOf(cs) == [k \in 1..Len(cs) |-> cs[k].ink_color]

\* how many elements of a list are t
Occurrences(xs, t) == Cardinality({k \in 1..Len(xs) : xs[k] = t})

\* C8: optimizer preservation.  For every input list, grid size and step cap, the
\* list the optimizer returns has the length of the input, and every token occurs
\* as a word, and as an ink, as often in it as in the input.
C8_OptimizerPreserves ==
    \A n \in 1..Len(optimized) :
        /\ Len(optimized[n]) = Len(cells_flat)
        /\ \A t \in Range(ColorToken) :
              /\ Occurrences(WordsOf(optimized[n]), t) = Occurrences(WordsOf(cells_flat), t)
              /\ Occurrences(InksOf(optimized[n]), t) = Occurrences(InksOf(cells_flat), t)

\* the optimizer has returned a list that differs from its input, after two swaps
C8_Witness ==
    /\ Len(optimized) = 1
    /\ optimized[1] /= cells_flat
    /\ swap_step = 2
    /\ last_swap /= NoSwap

\* the global interference score: the sum of _interference_at over all indices
GlobalScore(cs, gs) ==
    ForRange(LAMBDA acc, idx : acc + InterferenceAt(cs, idx, gs), 0, 0, Len(cs))

\* C9: optimizer monotonicity.  For every input list on a square grid (its length
\* is grid_size * grid_size) the global interference score of the optimizer's list,
\* after every step and at its return, is at least that of the input.
C9_OptimizerMonotone ==
    (caller = "direct" /\ Len(cells_flat) = grid_size * grid_size) =>
        /\ GlobalScore(cells, grid_size) >= GlobalScore(cells_flat, grid_size)
        /\ \A n \in 1..Len(optimized) :
              GlobalScore(optimized[n], grid_size) >= GlobalScore(cells_flat, grid_size)

\* the optimizer has returned a 3 x 3 list whose score is above that of its input
C9_Witness ==
    /\ Len(optimized) = 1
    /\ grid_size = 3
    /\ Len(cells_flat) = 9
    /\ GlobalScore(optimized[1], grid_size) > GlobalScore(cells_flat, grid_size)

\* C10: grid shape.  Every returned grid has ROWS = 8 rows of COLS = 8 cells, 64
\* cells in all, its metadata rows and cols are these dimensions, and the grid a call
\* has just returned holds the optimizer's flat output in row-major order: the cell
\* at row r, column c (from 0) is the cell at index r * cols + c.
C10_GridShape ==
    /\ \A n \in 1..Len(returned) :
          /\ Len(returned[n].cells) = 8
          /\ \A r \in 1..Len(returned[n].cells) : Len(returned[n].cells[r]) = 8
          /\ Cardinality(GridPositions(returned[n])) = 64
          /\ returned[n].metadata.rows = Len(returned[n].cells)
          /\ returned[n].metadata.cols = Len(returned[n].cells[1])
    /\ (pc = "idle" /\ returned /= <<>>) =>
          /\ Len(cells) = 64
          /\ \A p \in GridPositions(returned[Len(returned)]) :
                returned[Len(returned)].cells[p[1]][p[2]] = cells[(p[1] - 1) * 8 + p[2]]

\* a grid has been returned in which the order matters: the first cell of the second
\* row, index 8 of the flat list, is not the second cell of the first row
C10_Witness ==
    /\ pc = "idle"
    /\ Len(returned) = 1
    /\ returned[1].cells[2][1] = cells[9]
    /\ returned[1].cells[2][1] /= returned[1].cells[1][2]

\* the tokens that are the ink of at least one cell of a grid
InksUsed(g) == {g.cells[p[1]][p[2]].ink_color : p \in GridPositions(g)}

\* C11: a color count outside [2, 8] is clamped, not rejected.  The generator is
\* constructed, its color count is 2 for an argument below 2, 8 for an argument
\* above 8 and the argument otherwise, its colors are the subset of that value, and
\* every returned grid records that value, which lies in 2..8, and is inked with
\* exactly the tokens of that subset.
C11_ColorCountClamped ==
    /\ color_count \in 2..8
    /\ init_args.color_count < 2 => color_count = 2
    /\ init_args.color_count > 8 => color_count = 8
    /\ init_args.color_count \in 2..8 => color_count = init_args.color_count
    /\ colors = DEFAULT_COLOR_SUBSETS[color_count]
    /\ \A n \in 1..Len(returned) :
          /\ returned[n].metadata.color_count = color_count
          /\ returned[n].metadata.color_count \in 2..8
          /\ InksUsed(returned[n]) = Range(DEFAULT_COLOR_SUBSETS[color_count])

\* a grid has been returned by a generator constructed with color_count = 10: it
\* records 8 and uses all eight tokens
C11_Witness ==
    /\ Len(returned) >= 1
    /\ init_args.color_count = 10
    /\ returned[1].metadata.color_count = 8
    /\ Cardinality(InksUsed(returned[1])) = 8

\* C12: a congruence outside [0, 1] is clamped to [0, 1].  The congruence recorded
\* in the metadata of every returned grid lies in [0, 1] (0..CongruenceDenom in
\* units of 1 / CongruenceDenom), and the grid is the one of the clamped value: all
\* cells congruent for an argument above 1, none for an argument below 0.
C12_CongruenceClamped ==
    \A n \in 1..Len(returned) :
        /\ returned[n].metadata.congruence_percentage \in 0..CongruenceDenom
        /\ init_args.congruence_percentage > CongruenceDenom =>
              CongruentCount(returned[n]) = 64
        /\ init_args.congruence_percentage < 0 => CongruentCount(returned[n]) = 0

\* C15: without a seed argument, the seed recorded in every returned grid is
\* strictly greater than 0, whatever the clock reads.
C15_AutoSeedPositive ==
    \A n \in 1..Len(returned) :
        ~init_args.seed_given => returned[n].metadata.seed > 0

\* C13: validator semantics.  validate(counts, active) returns is_valid = TRUE
\* exactly when every token of active has min_count <= count <= max_count, a token
\* missing from counts having count 0; the counts of tokens outside active do not
\* enter; with active omitted all eight tokens are checked.  The issues are one per
\* entry of the checked list that is out of the limits.
C13_ValidatorSemantics ==
    direct.op = "validate" =>
        LET checked == IF direct.active_colors = NoList
                         THEN <<"BLACK", "BROWN", "PURPLE", "BLUE",
                                "GRAY", "PINK", "ORANGE", "YELLOW">>
                         ELSE direct.active_colors
            count(t) == IF t \in DOMAIN direct.color_counts
                          THEN direct.color_counts[t] ELSE 0
            within(t) == /\ direct.validator.min_count <= count(t)
                         /\ count(t) <= direct.validator.max_count
        IN /\ direct.result.is_valid <=> (\A k \in 1..Len(checked) : within(checked[k]))
           /\ Len(direct.result.issues)
                 = Cardinality({k \in 1..Len(checked) : ~within(checked[k])})

\* validate has accepted counts whose active tokens are within the limits while a
\* token outside the active list is above the maximum
C13_Witness ==
    /\ direct.op = "validate"
    /\ direct.active_colors = <<"BLACK", "YELLOW">>
    /\ direct.result.is_valid
    /\ "BROWN" \in DOMAIN direct.color_counts
    /\ direct.color_counts["BROWN"] > direct.validator.max_count

\* the position of token t in the luminance order
Luminance(t) ==
    CHOOSE k \in 1..8 :
        <<"BLACK", "BROWN", "PURPLE", "BLUE", "GRAY", "PINK", "ORANGE", "YELLOW">>[k] = t

\* C14: the subset table.  The colors a generator with color count K works with
\* are the row K of the fixed table: K distinct tokens in luminance order (a
\* subsequence of BLACK, BROWN, PURPLE, BLUE, GRAY, PINK, ORANGE, YELLOW), BLACK,
\* YELLOW for K = 2, BLACK, BLUE, ORANGE, YELLOW for K = 4, all eight for K = 8, and
\* contained in the row K + 1 when K is in 2..7.
C14_SubsetTable ==
    /\ Len(colors) = color_count
    /\ \A a, b \in 1..Len(colors) : a < b => Luminance(colors[a]) < Luminance(colors[b])
    /\ color_count = 2 => colors = <<"BLACK", "YELLOW">>
    /\ color_count = 3 => colors = <<"BLACK", "BLUE", "YELLOW">>
    /\ color_count = 4 => colors = <<"BLACK", "BLUE", "ORANGE", "YELLOW">>
    /\ color_count = 5 => colors = <<"BLACK", "PURPLE", "BLUE", "ORANGE", "YELLOW">>
    /\ color_count = 6 => colors = <<"BLACK", "PURPLE", "BLUE", "PINK", "ORANGE", "YELLOW">>
    /\ color_count = 7 =>
          colors = <<"BLACK", "BROWN", "PURPLE", "BLUE", "PINK", "ORANGE", "YELLOW">>
    /\ color_count = 8 =>
          colors = <<"BLACK", "BROWN", "PURPLE", "BLUE", "GRAY", "PINK", "ORANGE", "YELLOW">>
    /\ color_count \in 2..7 =>
          Range(colors) \subseteq Range(DEFAULT_COLOR_SUBSETS[color_count + 1])

\* a generator constructed with color_count = 4 works with BLACK, BLUE, ORANGE,
\* YELLOW and has returned a grid inked with these four
C14_Witness ==
    /\ init_args.color_count = 4
    /\ colors = <<"BLACK", "BLUE", "ORANGE", "YELLOW">>
    /\ Len(returned) >= 1
    /\ InksUsed(returned[1]) = {"BLACK", "BLUE", "ORANGE", "YELLOW"}

\* C16: two generators side by side.  With two generators, each a separate instance
\* with its own RNG and its own configuration, running generate with their steps
\* interleaved in any order, every grid either of them returns is exactly the grid
\* that configuration returns when its generator runs alone.
C16_Independent ==
    /\ \A n \in 1..Len(returned) : returned[n] = GenerateAlone(init_args)
    /\ other.present =>
          \A n \in 1..Len(other.returned) :
              other.returned[n] = GenerateAlone(other.init_args)

\* both generators, of different configurations, have returned a grid, and their
\* calls overlapped: one was suspended in the middle of its call while the other
\* was in the middle of its own
C16_Witness ==
    /\ other.present
    /\ other.overlapped
    /\ init_args /= other.init_args
    /\ Len(returned) = 1
    /\ Len(other.returned) = 1

\* the in-bounds orthogonal neighbours of flat index idx in a rows x cols grid
Orthogonal(rows, cols, idx) ==
    LET row(n) == n \div cols
        col(n) == n % cols
    IN {n \in 0..(rows * cols - 1) :
           \/ row(n) = row(idx) /\ (col(n) = col(idx) + 1 \/ col(n) + 1 = col(idx))
           \/ col(n) = col(idx) /\ (row(n) = row(idx) + 1 \/ row(n) + 1 = row(idx))}

\* the neighbours read at every index are the in-bounds orthogonal ones, and
\* adjacency is symmetric
NeighboursExact ==
    /\ \A idx \in DOMAIN direct.used :
          direct.used[idx] = Orthogonal(direct.rows, direct.cols, idx)
    /\ \A i, j \in DOMAIN direct.used : j \in direct.used[i] <=> i \in direct.used[j]

\* C17 as stated: for square lists and for rectangular ones, rows < cols or
\* rows > cols, passed with their column count, the neighbours the interference
\* score reads at a cell are exactly its in-bounds orthogonal neighbours, and
\* adjacency is symmetric.
C17_RectangularNeighbours ==
    direct.op = "neighbours" => NeighboursExact

\* C17, amended: the same for lists with no more rows than columns (rows <= cols).
C17_WideNeighbours ==
    (direct.op = "neighbours" /\ direct.rows <= direct.cols) => NeighboursExact

\* the interference score has been read on a 2 x 3 list: the middle cell of the
\* second row has its left, right and upper neighbours, and none below
C17_Witness ==
    /\ direct.op = "neighbours"
    /\ direct.rows = 2
    /\ direct.cols = 3
    /\ direct.used[4] = {1, 3, 5}

C20_GainIsHalfDelta ==
    direct.op = "gain" =>
        \E before \in {GlobalScore(direct.cells, direct.grid_size)} :
            \A pair \in DOMAIN direct.gain :
                \E delta \in {GlobalScore(Swap(direct.cells, pair[1], pair[2]),
                                          direct.grid_size) - before} :
                    /\ delta = 2 * direct.gain[pair]
                    /\ delta > 0 <=> direct.gain[pair] > 0
                    /\ delta < 0 <=> direct.gain[pair] < 0

\* the gains of a 3 x 3 list have been computed, and swapping the adjacent cells 0
\* and 1 has a positive gain
C20_Witness ==
    /\ direct.op = "gain"
    /\ direct.grid_size = 3
    /\ direct.gain[<<0, 1>>] > 0
    /\ GlobalScore(Swap(direct.cells, 0, 1), 3) > GlobalScore(direct.cells, 3)

\* C21: the optimizer terminates for every input.  It never takes more than
\* max_swaps steps; each step applies one swap or none; a step whose best sampled
\* gain is not positive applies none and is the last; and an optimizer that has
\* been entered reaches its return.
C21_OptimizerTerminates ==
    /\ [](swap_step <= max_swaps)
    /\ [][(pc = "optimize" /\ swap_step' = swap_step + 1) =>
             /\ swap_step < max_swaps
             /\ cells' = (IF last_swap' = NoSwap THEN cells
                          ELSE Swap(cells, last_swap'[1], last_swap'[2]))
             /\ last_swap' = NoSwap => pc' = "optimized"
             /\ swap_step' = max_swaps => pc' = "optimized"]_vars
    /\ (pc = "optimize") ~> (pc = "optimized")

\* a direct call with a cap of two steps has ended at its second step, which found
\* no positive gain, after one applied swap
C21_Witness ==
    /\ caller = "direct"
    /\ pc = "optimized"
    /\ max_swaps = 2
    /\ swap_step = 2
    /\ last_swap = NoSwap
    /\ cells /= cells_flat

\* x + y modulo 2**31, for x and y in 0 .. 2**31 - 1
AddMod31(x, y) == IF x > 2147483647 - y THEN (x - (2147483647 - y)) - 1 ELSE x + y

\* 31 * x modulo 2**31, by doubling: 31 = 16 + 8 + 4 + 2 + 1
Times31Mod31(x) ==
    LET x2 == AddMod31(x, x)
        x4 == AddMod31(x2, x2)
        x8 == AddMod31(x4, x4)
        x16 == AddMod31(x8, x8)
    IN AddMod31(AddMod31(AddMod31(x16, x8), AddMod31(x4, x2)), x)

\* the seed in use after n failed attempts of a call whose caller-facing seed is s
RECURSIVE SeedChain(_, _)
SeedChain(s, n) ==
    IF n = 0 THEN s
    ELSE CHOOSE v \in {AddMod31(Times31Mod31(prev), n) : prev \in {SeedChain(s, n - 1)}} : TRUE

AttemptStart(s, cols_, cp) ==
    CHOOSE v \in
        {Shuffle(assigned.list, assigned.rng) :
            assigned \in {AssignWords(ink_colors.list, cols_, cp, ink_colors.rng) :
                ink_colors \in {CreateInkDistribution(cols_, Len(cols_), RngNew(s))}}} : TRUE

\* C23: a fresh RNG per attempt.  What an attempt produces is a function of the
\* attempt's seed, K and p only: whatever the constructor, earlier attempts or
\* earlier calls on the same generator drew, the list and the RNG state the attempt
\* hands to the optimizer are those computed from a new RNG of the attempt's seed,
\* and the RNG in use through the attempt is the one built from that seed.
C23_FreshRngPerAttempt ==
    /\ (caller = "generate" /\ pc \in {"optimize", "optimized"}) => rng_seed = current_seed
    /\ (caller = "generate" /\ pc \in {"optimize", "optimized"} /\ swap_step = 0) =>
          \E start \in {AttemptStart(current_seed, colors, congruence_percentage)} :
              /\ cells_flat = start.list
              /\ cells = start.list
              /\ rng = start.rng

\* the third attempt of a call begins, after two attempts that consumed draws
C23_Witness ==
    /\ caller = "generate"
    /\ pc = "optimize"
    /\ swap_step = 0
    /\ attempts = 2
    /\ current_seed /= seed

\* how many of the four borders of a g x g grid the cell at idx lies on
BordersTouched(g, idx) ==
    (IF idx \div g = 0 THEN 1 ELSE 0) + (IF idx \div g = g - 1 THEN 1 ELSE 0)
    + (IF idx % g = 0 THEN 1 ELSE 0) + (IF idx % g = g - 1 THEN 1 ELSE 0)

\* C24: _interference_at(cells, i, g) on a g x g grid is the sum, over the in-bounds
\* orthogonal neighbours j of i, of [ink(i) = word(j)] + [ink(j) = word(i)], both
\* directions counted; a corner cell (on two borders) has exactly 2 neighbours, an
\* edge cell that is no corner (on one border) 3, an interior cell 4; and the
\* result lies between 0 and twice the number of neighbours.
C24_InterferenceAt ==
    direct.op = "interference" =>
        \A i \in DOMAIN direct.result :
            LET cs == direct.cells
                g == direct.grid_size
                N == Orthogonal(g, g, i)
            IN /\ direct.used[i] = N
               /\ direct.result[i]
                     = Cardinality({j \in N : cs[i + 1].ink_color = cs[j + 1].word})
                       + Cardinality({j \in N : cs[j + 1].ink_color = cs[i + 1].word})
               /\ BordersTouched(g, i) = 2 => Cardinality(direct.used[i]) = 2
               /\ BordersTouched(g, i) = 1 => Cardinality(direct.used[i]) = 3
               /\ BordersTouched(g, i) = 0 => Cardinality(direct.used[i]) = 4
               /\ direct.result[i] >= 0
               /\ direct.result[i] <= 2 * Cardinality(direct.used[i])

\* _interference_at has been read on a 3 x 3 list whose interior cell scores 8, both
\* directions matching at each of its four neighbours, and whose corner scores 4
C24_Witness ==
    /\ direct.op = "interference"
    /\ direct.grid_size = 3
    /\ direct.result[4] = 8
    /\ direct.result[0] = 4
    /\ Cardinality(direct.used[1]) = 3

\* the first count pairs drawn from RNG state r on a list of n cells, in order, and
\* the RNG state after them: two draws a pair, nothing redrawn
DrawnPairs(r, n, count) ==
    ForRange(LAMBDA st, k :
                 [rng |-> RngNext(RngNext(st.rng)),
                  pairs |-> Append(st.pairs, <<Randbelow(RngNext(st.rng), n),
                                               Randbelow(RngNext(RngNext(st.rng)), n)>>)],
             [rng |-> r, pairs |-> <<>>], 0, count)

\* C25: the sample of a step.  Each optimizer step draws exactly
\* S = min(100, 2 * |cells|) index pairs from the RNG; a pair with i = j is skipped
\* and not redrawn; the swap applied at the end of the step is the first drawn pair
\* attaining the maximum gain over the evaluated candidates, applied only if that
\* gain is positive, and otherwise nothing is applied.
C25_SampleAndBest ==
    [][(pc = "optimize" /\ swap_step' = swap_step + 1) =>
          \E S \in {IF 2 * Len(cells) < 100 THEN 2 * Len(cells) ELSE 100} :
            \E drawn \in {DrawnPairs(rng, Len(cells), S)} :
              \E gains \in {[k \in {c \in 1..S : drawn.pairs[c][1] /= drawn.pairs[c][2]} |->
                                SwapGain(cells, drawn.pairs[k][1], drawn.pairs[k][2],
                                         grid_size)]} :
                /\ rng' = drawn.rng
                /\ Cardinality(DOMAIN gains) <= S
                /\ IF \E k \in DOMAIN gains : gains[k] > 0
                     THEN \E k \in DOMAIN gains :
                             /\ \A m \in DOMAIN gains : gains[m] <= gains[k]
                             /\ \A m \in DOMAIN gains : m < k => gains[m] < gains[k]
                             /\ last_swap' = drawn.pairs[k]
                             /\ cells' = Swap(cells, drawn.pairs[k][1], drawn.pairs[k][2])
                     ELSE last_swap' = NoSwap /\ cells' = cells]_vars

\* the first step of a direct call on a 3 x 3 list has drawn its 18 pairs, one of
\* them with i = j, and has applied one of the others
C25_Witness ==
    /\ caller = "direct"
    /\ swap_step = 1
    /\ Len(cells_flat) = 9
    /\ last_swap /= NoSwap
    /\ \E drawn \in {DrawnPairs(RngNew(seed), 9, 18)} :
          /\ rng = drawn.rng
          /\ \E k \in 1..18 : drawn.pairs[k][1] = drawn.pairs[k][2]
          /\ \E k \in 1..18 : drawn.pairs[k] = last_swap

\* C26: the validator's tolerance.  For every clamped K in 2..8 on the 64-cell grid
\* the generator's validator has min = base - tol and max = base + tol, with
\* base = floor(64 / K) and tol = max(2, floor(base / 4)): [24, 40] for K = 2,
\* [12, 20] for K = 4, [6, 10] for K = 8; min is positive and min <= base <= max.
C26_ValidatorTolerance ==
    \E base \in {64 \div color_count} :
        \E tol \in {IF base \div 4 > 2 THEN base \div 4 ELSE 2} :
            /\ color_count \in 2..8
            /\ validator.min_count = base - tol
            /\ validator.max_count = base + tol
            /\ color_count = 2 => (validator.min_count = 24 /\ validator.max_count = 40)
            /\ color_count = 4 => (validator.min_count = 12 /\ validator.max_count = 20)
            /\ color_count = 8 => (validator.min_count = 6 /\ validator.max_count = 10)
            /\ validator.min_count > 0
            /\ validator.min_count <= base
            /\ base <= validator.max_count

\* a generator constructed with K = 7 has the bounds [7, 11] (base 9, tolerance 2,
\* the floor of the maximum) and has validated and returned a grid with them
C26_Witness ==
    /\ color_count = 7
    /\ validator.min_count = 7
    /\ validator.max_count = 11
    /\ Len(returned) >= 1

\* C27: the optimizer leaves its argument unchanged.  From the call of
\* _optimize_stroop_interference to its return the caller's list keeps the same
\* cells at the same positions, through every applied swap; the list returned is
\* another list, which may differ from it.
C27_ArgumentUnchanged ==
    [][(caller = "direct" /\ pc \in {"optimize", "optimized"}) =>
          cells_flat' = cells_flat]_vars

\* a direct call has returned a list that differs from its argument, which is as it
\* was passed
C27_Witness ==
    /\ caller = "direct"
    /\ Len(optimized) = 1
    /\ last_swap /= NoSwap
    /\ optimized[1] /= cells_flat


\* C28: the retry path is unreachable with the generator's own validator.  For every
\* seed, congruence and K in 2..8, the ink counts of the list the first attempt
\* produces lie inside the validator's bounds, no attempt ever fails, no warning is
\* logged, the seed in use is the generator's seed (never a derived one), and every
\* grid returned has its ink counts inside the bounds.
C28_RetryUnreachable ==
    validator.kind = "DistributionValidator" =>
        /\ attempts = 0
        /\ log = <<>>
        /\ current_seed \in {Unbound, seed}
        /\ (caller = "generate" /\ pc \in {"optimize", "optimized"}) =>
              /\ rng_seed = seed
              /\ \A k \in 1..Len(colors) :
                    /\ Occurrences(InksOf(cells), colors[k]) >= validator.min_count
                    /\ Occurrences(InksOf(cells), colors[k]) <= validator.max_count
        /\ \A n \in 1..Len(returned) :
              /\ returned[n].metadata.seed = seed
              /\ \A k \in 1..Len(colors) :
                    /\ InkCount(returned[n], colors[k]) >= validator.min_count
                    /\ InkCount(returned[n], colors[k]) <= validator.max_count

\* a generator with three colors (64 is not a multiple of 3) and its own validator
\* has returned from two calls
C28_Witness ==
    /\ validator.kind = "DistributionValidator"
    /\ color_count = 3
    /\ congruence_percentage = 0
    /\ Len(returned) = 2
    /\ attempts = 0


\* the cells _assign_words produces in an attempt of seed s, before the shuffle
AssignedCells(s, cols_, cp) ==
    CHOOSE v \in
        {AssignWords(ink_colors.list, cols_, cp, ink_colors.rng).list :
            ink_colors \in {CreateInkDistribution(cols_, Len(cols_), RngNew(s))}} : TRUE

\* the is_congruent draws of _assign_words in an attempt of seed s, cell by cell
AssignedCongruent(s, cols_, cp) ==
    CHOOSE v \in
        {ForRange(LAMBDA st, k :
                      CHOOSE w \in
                          {[flags |-> Append(st.flags, RandomLess(RngNext(st.rng), cp)),
                            list |-> nxt.list, rng |-> nxt.rng] :
                              nxt \in {AssignWord([list |-> st.list, rng |-> st.rng],
                                                  ink_colors.list[k + 1], cols_, cp)}} : TRUE,
                  [flags |-> <<>>, list |-> <<>>, rng |-> ink_colors.rng],
                  0, Len(ink_colors.list)).flags :
            ink_colors \in {CreateInkDistribution(cols_, Len(cols_), RngNew(s))}} : TRUE

\* how many cells of a grid are the cell c
CellCount(g, c) ==
    Cardinality({p \in GridPositions(g) : g.cells[p[1]][p[2]] = c})

\* C29: cells are moved wholesale.  The list handed back by the optimizer and the
\* grid generate returns hold exactly the cells word assignment produced in the
\* attempt they come from: every (word, ink) pair occurs as often as there.  A cell
\* drawn incongruent never has word = ink, so the number of congruent cells of the
\* returned grid is the number of congruent draws of word assignment.
C29_CellsMovedWholesale ==
    /\ (caller = "generate" /\ pc = "optimized") =>
          \E assigned \in {AssignedCells(rng_seed, colors, congruence_percentage)} :
              /\ Len(cells) = Len(assigned)
              /\ \A c \in Range(assigned) : Occurrences(cells, c) = Occurrences(assigned, c)
    /\ (pc = "idle" /\ returned /= <<>>) =>
          \E assigned \in {AssignedCells(rng_seed, colors, congruence_percentage)},
             flags \in {AssignedCongruent(rng_seed, colors, congruence_percentage)},
             grid \in {returned[Len(returned)]} :
              /\ Cardinality(GridPositions(grid)) = Len(assigned)
              /\ \A c \in Range(assigned) : CellCount(grid, c) = Occurrences(assigned, c)
              /\ \A k \in 1..Len(assigned) :
                    flags[k] <=> (assigned[k].word = assigned[k].ink_color)
              /\ CongruentCount(grid) = Occurrences(flags, TRUE)

\* a grid of four colors at congruence 1/CongruenceDenom has been returned after
\* the optimizer went through more than one iteration, so applied a swap; some of
\* its cells are congruent and some are not
C29_Witness ==
    /\ pc = "idle"
    /\ returned /= <<>>
    /\ color_count = 4
    /\ congruence_percentage = 1
    /\ swap_step > 1
    /\ CongruentCount(returned[Len(returned)]) > 0
    /\ CongruentCount(returned[Len(returned)]) < ROWS * COLS


\* C30: generate is repeatable on one instance and leaves the configuration
\* untouched.  All the grids one generator has returned are equal, cells and
\* metadata, also when a private helper drew from the generator's RNG before or
\* between the calls; and no step of generate changes the generator's seed,
\* color_count, congruence_percentage, color subset or validator bounds: of the
\* instance's fields only the RNG changes.
C30_RepeatableInstance ==
    /\ [](\A m \in 1..Len(returned), n \in 1..Len(returned) : returned[m] = returned[n])
    /\ [][/\ seed' = seed
          /\ color_count' = color_count
          /\ congruence_percentage' = congruence_percentage
          /\ colors' = colors
          /\ validator' = validator
          /\ generator' = generator]_vars

\* two calls of generate on one generator have returned, and between them
\* _create_ink_distribution drew from the generator's RNG
C30_Witness ==
    /\ generator = 1
    /\ Len(returned) = 2
    /\ direct /= NoCall
    /\ direct.after = 1
    /\ rng_seed = seed

====
